---- MODULE Spec2Model ----
(***************************************************************************)
(* Model of cargo-deb's compression backend (src/compress.rs) and of the   *)
(* path helper fname_from_path (src/util.rs).                              *)
(*                                                                         *)
(* xz_or_gz exists in two builds, selected by the cargo feature "lzma".    *)
(* A call is modelled step by step (one action per fallible library call)  *)
(* so that several calls can interleave and so that every `?` exit is a    *)
(* distinct transition.  The third-party encoders (zopfli, liblzma) are    *)
(* not part of the repository: their output is abstracted to a framed      *)
(* byte sequence (magic, parameters, input, trailer) and their failures    *)
(* are choices of the environment.                                         *)
(***************************************************************************)
EXTENDS Integers, Sequences, FiniteSets, TLC

\* ---------------------------------------------------------------- bounds
NumCalls == 2
MaxLen == 1
MaxCpus == 2
MaxReads == 2
MaxPathLen == 4

Calls == 1..NumCalls
Bytes == {0, 1}

RECURSIVE SeqsUpTo(_, _)
SeqsUpTo(S, n) ==
    IF n = 0 THEN {<<>>}
    ELSE LET shorter == SeqsUpTo(S, n - 1)
         IN  shorter \cup {Append(s, x) : s \in shorter, x \in S}

\* Input buffers: runs of up to MaxLen equal bytes (the code never looks at
\* the content of `data`, it only hands it to the encoder).
Data == {<<>>} \cup {[k \in 1..n |-> b] : n \in 1..MaxLen, b \in Bytes}

VARIABLES
    lzma,        \* the build: TRUE iff feature "lzma" is compiled in
    numCpus,     \* what num_cpus::get() reports on this host
    zopfliErr,   \* the inputs on which zopfli::compress reports an error
    pc,          \* per call: position inside xz_or_gz
    args,        \* per call: (data, fast)
    buf,         \* per call: the output Vec<u8> (`compressed` / `buf`)
    encoder,     \* per call: the MtStreamBuilder-built stream owned by the writer
    zopfliCall,  \* per call: the arguments handed to zopfli::compress
    ret,         \* per call: the CDResult<Compressed> returned
    log,         \* per call: the library steps executed so far, with their results
    view,        \* per call: the bytes last read through Deref
    reads,       \* per call: number of Deref reads done by the caller
    ext,         \* per call: the string last returned by extension()
    path,        \* argument of fname_from_path
    fname        \* outcome of fname_from_path

cvars == <<lzma, numCpus, zopfliErr, pc, args, buf, encoder, zopfliCall, ret, log>>
ovars == <<view, reads, ext>>
pvars == <<path, fname>>
vars == <<lzma, numCpus, zopfliErr, pc, args, buf, encoder, zopfliCall, ret, log,
          view, reads, ext, path, fname>>

\* ------------------------------------------------------ Compressed (enum)
Gz(data) == [kind |-> "Ok", tag |-> "Gz", data |-> data, err |-> ""]
Xz(data) == [kind |-> "Ok", tag |-> "Xz", data |-> data, err |-> ""]
Err(e) == [kind |-> "Err", tag |-> "", data |-> <<>>, err |-> e]
NoRet == [kind |-> "None", tag |-> "", data |-> <<>>, err |-> ""]

derefDropsFirst(v) == IF v.tag = "Xz" /\ v.data # <<>> THEN Tail(v.data) ELSE v.data
\* impl Deref for Compressed: both variants yield their payload
deref(v) == v.data

extensionAlwaysGz(v) == "gz"
\* Compressed::extension
extension(v) == IF v.tag = "Gz" THEN "gz" ELSE "xz"

\* ------------------------------------------------- library abstractions
\* zopfli's Options::default(), abstracted to its iteration count
DefaultOptions == 15

\* Output of zopfli::compress(options, Format::Gzip, data, out): a gzip member
\* abstracted to ID byte, parameter byte, the input, and the ISIZE trailer.
ZopfliCompress(options, format, data) ==
    <<(IF format = "Gzip" THEN 31 ELSE 120), options>> \o data \o <<Len(data)>>

\* What XzEncoder has pushed into its Vec after write_all(data): stream
\* header (magic 0xFD, abstracted parameters) and the blocks of the input.
XzBody(preset, data) == <<253, preset>> \o data
\* What finish() appends: index and stream footer.
XzFooter == <<90>>
XzStream(preset, data) == XzBody(preset, data) \o XzFooter

\* ------------------------------------------------------ xz_or_gz: policy
GzOptionsByFast(fast) == IF fast THEN 5 ELSE DefaultOptions
\* gzip build: `&Options::default()`, the parameter is named `_fast` and unused
GzOptions(fast) == DefaultOptions

PresetAlwaysSix(fast) == 6
\* lzma build: `.preset(if fast { 1 } else { 6 })`
Preset(fast) == IF fast THEN 1 ELSE 6

ErrEncoderAsIo == "Io"
\* `.map_err(|e| CargoDebError::LzmaCompressionError(e))`
ErrEncoder == "LzmaCompressionError"
\* `writer.write_all(data).map_err(|e| CargoDebError::Io(e))`
ErrWriteAll == "Io"
\* `writer.finish().map_err(|e| CargoDebError::Io(e))`
ErrFinish == "Io"
\* `zopfli::compress(..)?`: the io::Error converted by From in crate::error
ErrZopfli == "FromIoError"

BufShared(c) == 1
\* the Vec a call writes to: its own `Vec::with_capacity(data.len() >> 1)`
BufOf(c) == c

NoEncoder == [live |-> FALSE, threads |-> 0, preset |-> 0]
NoZopfliCall == [called |-> FALSE, options |-> 0, format |-> ""]

\* -------------------------------------------------------------- initial
CompressIdle ==
    /\ pc = [c \in Calls |-> "idle"]
    /\ args = [c \in Calls |-> [data |-> <<>>, fast |-> FALSE]]
    /\ buf = [c \in Calls |-> <<>>]
    /\ encoder = [c \in Calls |-> NoEncoder]
    /\ zopfliCall = [c \in Calls |-> NoZopfliCall]
    /\ ret = [c \in Calls |-> NoRet]
    /\ log = [c \in Calls |-> <<>>]
    /\ view = [c \in Calls |-> <<>>]
    /\ reads = [c \in Calls |-> 0]
    /\ ext = [c \in Calls |-> ""]

NoFname == [state |-> "pending", value |-> <<>>]

Init ==
    /\ lzma \in BOOLEAN
    /\ numCpus \in 1..MaxCpus
    /\ zopfliErr \in IF lzma THEN {{}} ELSE {{}} \cup {{d} : d \in Data}
    /\ CompressIdle
    /\ path = <<>>
    /\ fname = NoFname

\* ------------------------------------------------------------- xz_or_gz
\* Entry of either build: binds the arguments and allocates the output Vec.
Call(c) ==
    /\ pc[c] = "idle"
    /\ \E d \in Data, f \in BOOLEAN :
          args' = [args EXCEPT ![c] = [data |-> d, fast |-> f]]
    /\ buf' = [buf EXCEPT ![c] = <<>>]
    /\ pc' = [pc EXCEPT ![c] = IF lzma THEN "xz_encoder" ELSE "gz_compress"]
    /\ UNCHANGED <<lzma, numCpus, zopfliErr, encoder, zopfliCall, ret, log>>
    /\ UNCHANGED ovars /\ UNCHANGED pvars

\* #[cfg(not(feature = "lzma"))]: zopfli::compress(..)?; Ok(Compressed::Gz(compressed))
GzCompress(c) ==
    /\ pc[c] = "gz_compress"
    /\ LET o == GzOptions(args[c].fast)
           b == BufOf(c)
           out == buf[b] \o ZopfliCompress(o, "Gzip", args[c].data)
       IN  /\ zopfliCall' = [zopfliCall EXCEPT ![c] =
                               [called |-> TRUE, options |-> o, format |-> "Gzip"]]
           /\ IF args[c].data \in zopfliErr
              THEN /\ ret' = [ret EXCEPT ![c] = Err(ErrZopfli)]
                   /\ log' = [log EXCEPT ![c] = Append(@, <<"compress", "err">>)]
                   /\ buf' = [buf EXCEPT ![c] = <<>>]
              ELSE /\ ret' = [ret EXCEPT ![c] = Gz(out)]
                   /\ log' = [log EXCEPT ![c] = Append(@, <<"compress", "ok">>)]
                   /\ buf' = [buf EXCEPT ![b] = out]
    /\ pc' = [pc EXCEPT ![c] = "returned"]
    /\ UNCHANGED <<lzma, numCpus, zopfliErr, args, encoder>>
    /\ UNCHANGED ovars /\ UNCHANGED pvars

XzEncoderRetry(c) ==
    /\ pc[c] = "xz_encoder"
    /\ \/ /\ encoder' = [encoder EXCEPT ![c] =
                [live |-> TRUE, threads |-> numCpus, preset |-> Preset(args[c].fast)]]
          /\ log' = [log EXCEPT ![c] = Append(@, <<"encoder", "ok">>)]
          /\ pc' = [pc EXCEPT ![c] = "xz_write_all"]
          /\ UNCHANGED ret
       \/ /\ Len(log[c]) < 2
          /\ log' = [log EXCEPT ![c] = Append(@, <<"encoder", "err">>)]
          /\ UNCHANGED <<ret, pc, encoder>>
       \/ /\ Len(log[c]) >= 2
          /\ ret' = [ret EXCEPT ![c] = Err(ErrEncoder)]
          /\ log' = [log EXCEPT ![c] = Append(@, <<"encoder", "err">>)]
          /\ pc' = [pc EXCEPT ![c] = "returned"]
          /\ UNCHANGED encoder
    /\ UNCHANGED <<lzma, numCpus, zopfliErr, args, buf, zopfliCall>>
    /\ UNCHANGED ovars /\ UNCHANGED pvars

\* MtStreamBuilder::new().threads(..).preset(..).encoder().map_err(..)?
XzEncoder(c) ==
    /\ pc[c] = "xz_encoder"
    /\ \/ /\ encoder' = [encoder EXCEPT ![c] =
                [live |-> TRUE, threads |-> numCpus, preset |-> Preset(args[c].fast)]]
          /\ log' = [log EXCEPT ![c] = Append(@, <<"encoder", "ok">>)]
          /\ pc' = [pc EXCEPT ![c] = "xz_write_all"]
          /\ UNCHANGED <<ret, buf>>
       \/ /\ ret' = [ret EXCEPT ![c] = Err(ErrEncoder)]
          /\ log' = [log EXCEPT ![c] = Append(@, <<"encoder", "err">>)]
          /\ pc' = [pc EXCEPT ![c] = "returned"]
          /\ buf' = [buf EXCEPT ![c] = <<>>]
          /\ UNCHANGED encoder
    /\ UNCHANGED <<lzma, numCpus, zopfliErr, args, zopfliCall>>
    /\ UNCHANGED ovars /\ UNCHANGED pvars

\* XzEncoder::new_stream(buf, encoder); writer.write_all(data).map_err(..)?
XzWriteAll(c) ==
    /\ pc[c] = "xz_write_all"
    /\ \/ /\ buf' = [buf EXCEPT ![BufOf(c)] = @ \o XzBody(encoder[c].preset, args[c].data)]
          /\ log' = [log EXCEPT ![c] = Append(@, <<"write_all", "ok">>)]
          /\ pc' = [pc EXCEPT ![c] = "xz_finish"]
          /\ UNCHANGED <<ret, encoder>>
       \/ /\ ret' = [ret EXCEPT ![c] = Err(ErrWriteAll)]
          /\ log' = [log EXCEPT ![c] = Append(@, <<"write_all", "err">>)]
          /\ pc' = [pc EXCEPT ![c] = "returned"]
          /\ encoder' = [encoder EXCEPT ![c] = NoEncoder]
          /\ buf' = [buf EXCEPT ![c] = <<>>]
    /\ UNCHANGED <<lzma, numCpus, zopfliErr, args, zopfliCall>>
    /\ UNCHANGED ovars /\ UNCHANGED pvars

XzFinishPartial(c) ==
    /\ pc[c] = "xz_finish"
    /\ \/ /\ buf' = [buf EXCEPT ![BufOf(c)] = @ \o XzFooter]
          /\ ret' = [ret EXCEPT ![c] = Xz(buf'[BufOf(c)])]
          /\ log' = [log EXCEPT ![c] = Append(@, <<"finish", "ok">>)]
       \/ /\ ret' = [ret EXCEPT ![c] = Xz(buf[BufOf(c)])]
          /\ log' = [log EXCEPT ![c] = Append(@, <<"finish", "err">>)]
          /\ UNCHANGED buf
    /\ pc' = [pc EXCEPT ![c] = "returned"]
    /\ encoder' = [encoder EXCEPT ![c] = NoEncoder]
    /\ UNCHANGED <<lzma, numCpus, zopfliErr, args, zopfliCall>>
    /\ UNCHANGED ovars /\ UNCHANGED pvars

\* writer.finish().map_err(..)?; Ok(Compressed::Xz(compressed))
XzFinish(c) ==
    /\ pc[c] = "xz_finish"
    /\ \/ /\ buf' = [buf EXCEPT ![BufOf(c)] = @ \o XzFooter]
          /\ ret' = [ret EXCEPT ![c] = Xz(buf'[BufOf(c)])]
          /\ log' = [log EXCEPT ![c] = Append(@, <<"finish", "ok">>)]
       \/ /\ ret' = [ret EXCEPT ![c] = Err(ErrFinish)]
          /\ log' = [log EXCEPT ![c] = Append(@, <<"finish", "err">>)]
          /\ buf' = [buf EXCEPT ![c] = <<>>]
    /\ pc' = [pc EXCEPT ![c] = "returned"]
    /\ encoder' = [encoder EXCEPT ![c] = NoEncoder]
    /\ UNCHANGED <<lzma, numCpus, zopfliErr, args, zopfliCall>>
    /\ UNCHANGED ovars /\ UNCHANGED pvars

\* ------------------------------------------------ the caller's reads
\* `&*compressed`: the caller reads the payload through Deref
Deref(c) ==
    /\ pc[c] = "returned"
    /\ ret[c].kind = "Ok"
    /\ reads[c] < MaxReads
    /\ view' = [view EXCEPT ![c] = deref(ret[c])]
    /\ reads' = [reads EXCEPT ![c] = @ + 1]
    /\ UNCHANGED ext
    /\ UNCHANGED cvars /\ UNCHANGED pvars

\* `compressed.extension()`
Extension(c) ==
    /\ pc[c] = "returned"
    /\ ret[c].kind = "Ok"
    /\ ext' = [ext EXCEPT ![c] = extension(ret[c])]
    /\ UNCHANGED <<view, reads>>
    /\ UNCHANGED cvars /\ UNCHANGED pvars

\* ------------------------------------------------------ fname_from_path
PathChars == {"/", ".", "a", "xFF"}
Paths == SeqsUpTo(PathChars, MaxPathLen)

\* The segments of a path between separators, empty ones included.
RECURSIVE Split(_)
Split(p) ==
    IF \A k \in 1..Len(p) : p[k] # "/" THEN <<p>>
    ELSE LET k == CHOOSE k \in 1..Len(p) :
                      p[k] = "/" /\ \A m \in 1..(k - 1) : p[m] # "/"
         IN  <<SubSeq(p, 1, k - 1)>> \o Split(SubSeq(p, k + 1, Len(p)))

has_root(p) == Len(p) > 0 /\ p[1] = "/"

\* Path::components on Unix: repeated separators and `.` segments are
\* normalised away, except a leading `.` of a relative path.
RECURSIVE ComponentsOf(_, _, _)
ComponentsOf(segs, first, rooted) ==
    IF segs = <<>> THEN <<>>
    ELSE LET s == Head(segs)
             rest == ComponentsOf(Tail(segs), FALSE, rooted)
         IN  IF s = <<>> THEN rest
             ELSE IF s = <<".">>
                  THEN IF first /\ ~rooted
                       THEN <<[kind |-> "CurDir", name |-> <<>>]>> \o rest
                       ELSE rest
             ELSE IF s = <<".", ".">>
                  THEN <<[kind |-> "ParentDir", name |-> <<>>]>> \o rest
             ELSE <<[kind |-> "Normal", name |-> s]>> \o rest

components(p) ==
    (IF has_root(p) THEN <<[kind |-> "RootDir", name |-> <<>>]>> ELSE <<>>)
        \o ComponentsOf(Split(p), TRUE, has_root(p))

None == [some |-> FALSE, name |-> <<>>]
Some(n) == [some |-> TRUE, name |-> n]

file_nameStrict(p) ==
    IF p = <<>> \/ p[Len(p)] = "/" THEN None
    ELSE LET cs == components(p)
         IN  IF cs # <<>> /\ cs[Len(cs)].kind = "Normal"
             THEN Some(cs[Len(cs)].name) ELSE None
\* Path::file_name: the last component, if it is a normal one
file_name(p) ==
    LET cs == components(p)
    IN  IF cs # <<>> /\ cs[Len(cs)].kind = "Normal"
        THEN Some(cs[Len(cs)].name) ELSE None

\* OsStr::to_string_lossy: an invalid byte becomes U+FFFD
to_string_lossy(n) == [k \in 1..Len(n) |-> IF n[k] = "xFF" THEN "uFFFD" ELSE n[k]]

\* path.file_name().unwrap().to_string_lossy().into()
FnameFromPath ==
    /\ fname.state = "pending"
    /\ LET f == file_name(path)
       IN  fname' = IF f.some
                    THEN [state |-> "returned", value |-> to_string_lossy(f.name)]
                    ELSE [state |-> "panicked", value |-> <<>>]
    /\ UNCHANGED path
    /\ UNCHANGED cvars /\ UNCHANGED ovars

\* ------------------------------------------------------- specifications
\* Concurrent calls of xz_or_gz.
Next ==
    \E c \in Calls :
        \/ Call(c)
        \/ GzCompress(c)
        \/ XzEncoder(c)
        \/ XzWriteAll(c)
        \/ XzFinish(c)

Spec == Init /\ [][Next]_vars

\* One caller that compresses and then reads the result.
NextObs ==
    \E c \in {1} :
        \/ Call(c)
        \/ GzCompress(c)
        \/ XzEncoder(c)
        \/ XzWriteAll(c)
        \/ XzFinish(c)
        \/ Deref(c)
        \/ Extension(c)

SpecObs == Init /\ [][NextObs]_vars

\* fname_from_path applied to every bounded path.
InitPath ==
    /\ lzma = FALSE
    /\ numCpus = 1
    /\ zopfliErr = {}
    /\ CompressIdle
    /\ path \in Paths
    /\ fname = NoFname

NextPath == FnameFromPath

SpecPath == InitPath /\ [][NextPath]_vars

\* ---------------------------------------------------------- properties
Returned(c) == pc[c] = "returned"
InLog(c, e) == \E k \in 1..Len(log[c]) : log[c][k] = e
FailedAt(c, step) == InLog(c, <<step, "err">>)
Failed(c) == Returned(c) /\ ret[c].kind = "Err"
XzSteps == {"encoder", "write_all", "finish"}

\* C1, as stated: in the lzma build two calls that failed at different steps
\* (construct, write, finish) always carry different error kinds.
C1_EveryFailurePointDistinct ==
    lzma => \A c1, c2 \in Calls : \A s1, s2 \in XzSteps :
        (s1 # s2 /\ Failed(c1) /\ Failed(c2) /\ FailedAt(c1, s1) /\ FailedAt(c2, s2))
            => ret[c1].err # ret[c2].err

\* C1, amended: in the lzma build a construction failure returns
\* LzmaCompressionError and a write or finish failure returns Io, so two failed
\* calls carry the same error kind exactly when both failed at construction or
\* both failed at write/finish; write and finish are not told apart by kind.
C1_ConstructionDistinctWriteFinishAlike ==
    lzma => \A c1, c2 \in Calls :
        (Failed(c1) /\ Failed(c2)) =>
            /\ (ret[c1].err = ret[c2].err)
                  <=> (FailedAt(c1, "encoder") <=> FailedAt(c2, "encoder"))
            /\ FailedAt(c1, "encoder") => ret[c1].err = "LzmaCompressionError"
            /\ (FailedAt(c1, "write_all") \/ FailedAt(c1, "finish")) => ret[c1].err = "Io"

C1_Witness ==
    \E c1, c2 \in Calls :
        /\ Failed(c1) /\ FailedAt(c1, "write_all")
        /\ Failed(c2) /\ FailedAt(c2, "finish")

\* C2: in the lzma build, once construction of the encoder stream has failed the
\* call has returned LzmaCompressionError (not the kind of write/finish
\* failures), construction was attempted exactly once, and neither write_all
\* nor finish was executed.
C2_ConstructionFailureIsFinal ==
    lzma => \A c \in Calls :
        FailedAt(c, "encoder") =>
            /\ Returned(c)
            /\ ret[c] = Err("LzmaCompressionError")
            /\ ret[c].err \notin {ErrWriteAll, ErrFinish}
            /\ log[c] = << <<"encoder", "err">> >>
            /\ ~encoder[c].live

C2_Witness ==
    \E c \in Calls : lzma /\ Returned(c) /\ FailedAt(c, "encoder") /\ args[c].data # <<>>

\* C3: in either build a call returns a Compressed value only after every
\* encoder step of that call succeeded, each exactly once, and then the payload
\* is the finished stream of the whole input in the build's own format; a
\* failed step is the call's last step and the call returns an error.
C3_OkOnlyIfEveryStepSucceeded ==
    \A c \in Calls :
        /\ \A i, j \in 1..Len(log[c]) : i # j => log[c][i][1] # log[c][j][1]
        /\ \A i \in 1..Len(log[c]) :
              log[c][i][2] = "err" =>
                  i = Len(log[c]) /\ Returned(c) /\ ret[c].kind = "Err"
        /\ ret[c].kind = "Ok" =>
              LET d == ret[c].data
                  n == Len(args[c].data)
              IN  /\ Returned(c)
                  /\ Len(d) = n + 3
                  /\ SubSeq(d, 3, n + 2) = args[c].data
                  /\ IF lzma
                     THEN /\ ret[c].tag = "Xz"
                          /\ log[c] = << <<"encoder", "ok">>, <<"write_all", "ok">>,
                                         <<"finish", "ok">> >>
                          /\ d[1] = 253 /\ <<d[n + 3]>> = XzFooter
                     ELSE /\ ret[c].tag = "Gz"
                          /\ log[c] = << <<"compress", "ok">> >>
                          /\ d[1] = 31 /\ d[n + 3] = n

C3_Witness ==
    \E c1, c2 \in Calls :
        /\ ret[c1].kind = "Ok" /\ args[c1].data # <<>>
        /\ Failed(c2) /\ args[c2].data # <<>>

\* C4: the string returned by extension() is "gz" exactly for values made by
\* the gzip path (variant Gz) and "xz" exactly for values made by the lzma path
\* (variant Xz), whatever the payload; the variant is fixed by the build.
C4_ExtensionMatchesPath ==
    \A c \in Calls :
        ext[c] # "" =>
            /\ ext[c] \in {"gz", "xz"}
            /\ (ext[c] = "gz") <=> InLog(c, <<"compress", "ok">>)
            /\ (ext[c] = "xz") <=> InLog(c, <<"finish", "ok">>)
            /\ (ext[c] = "gz") <=> (ret[c].tag = "Gz")
            /\ (ext[c] = "xz") <=> (ret[c].tag = "Xz")
            /\ (ret[c].tag = "Xz") <=> lzma

C4_Witness ==
    \E c \in Calls : ext[c] = "xz" /\ ret[c].tag = "Xz" /\ args[c].data # <<>>

\* C5: in the lzma build the encoder is built with preset 1 when fast is true
\* and preset 6 when fast is false, for every input and every thread count.
C5_PresetFollowsFast ==
    lzma => \A c \in Calls :
        /\ encoder[c].live =>
              /\ encoder[c].preset = (IF args[c].fast THEN 1 ELSE 6)
              /\ encoder[c].threads = numCpus
        /\ ret[c].kind = "Ok" => ret[c].data[2] = (IF args[c].fast THEN 1 ELSE 6)

C5_Witness ==
    \E c1, c2 \in Calls :
        /\ encoder[c1].live /\ args[c1].fast /\ encoder[c1].preset = 1
        /\ encoder[c2].live /\ ~args[c2].fast /\ encoder[c2].preset = 6
        /\ args[c1].data # args[c2].data

\* C6: in the gzip build the fast flag is inert: every call hands zopfli the
\* default options and the Gzip format, and two calls on the same input return
\* the same outcome whatever their fast flags.
C6_FastInertOnGzip ==
    ~lzma => \A c1, c2 \in Calls :
        /\ zopfliCall[c1].called =>
              zopfliCall[c1].options = DefaultOptions /\ zopfliCall[c1].format = "Gzip"
        /\ (Returned(c1) /\ Returned(c2) /\ args[c1].data = args[c2].data) =>
              ret[c1] = ret[c2] /\ zopfliCall[c1] = zopfliCall[c2]

C6_Witness ==
    \E c1, c2 \in Calls :
        /\ ~lzma /\ Returned(c1) /\ Returned(c2)
        /\ args[c1].data = args[c2].data /\ args[c1].data # <<>>
        /\ args[c1].fast /\ ~args[c2].fast
        /\ ret[c1].kind = "Ok"

\* C8: every read through Deref yields exactly the bytes of the Vec the value
\* was constructed with, a later read yields the same bytes as the earlier one,
\* and a read changes neither the payload nor the variant tag.
C8_DerefIsTransparent ==
    [][\A c \in Calls :
          Deref(c) =>
              /\ view'[c] = buf[c]
              /\ view'[c] = ret[c].data
              /\ reads[c] > 0 => view'[c] = view[c]
              /\ ret' = ret]_vars

C8_Witness ==
    \E c \in Calls :
        reads[c] >= 2 /\ view[c] = ret[c].data /\ ret[c].tag = "Xz" /\ args[c].data # <<>>

\* What a call can return when it runs with no other call in progress.
AloneOutcomes(data, fast) ==
    IF lzma
    THEN {Err(ErrEncoder), Err(ErrWriteAll), Err(ErrFinish),
          Xz(XzStream(Preset(fast), data))}
    ELSE IF data \in zopfliErr
         THEN {Err(ErrZopfli)}
         ELSE {Gz(ZopfliCompress(GzOptions(fast), "Gzip", data))}

\* The contents a call's own output Vec can have when it runs alone.
AloneBuffers(data, fast) ==
    IF lzma
    THEN {<<>>, XzBody(Preset(fast), data), XzStream(Preset(fast), data)}
    ELSE {<<>>, ZopfliCompress(GzOptions(fast), "Gzip", data)}

\* C9: under every interleaving of the calls, each call's outcome is one it can
\* have when run alone on its own (data, fast), and its output buffer never
\* holds bytes written by another call.
C9_CallsAreIsolated ==
    \A c \in Calls :
        /\ Returned(c) => ret[c] \in AloneOutcomes(args[c].data, args[c].fast)
        /\ buf[c] \in AloneBuffers(args[c].data, args[c].fast)

C9_Witness ==
    \E c1, c2 \in Calls :
        /\ c1 # c2
        /\ ret[c1].kind = "Ok" /\ ret[c2].kind = "Ok"
        /\ args[c1].data # args[c2].data
        /\ args[c1].data # <<>> /\ args[c2].data # <<>>

\* The final names of a path: a segment between separators (or the ends) that
\* is neither empty, "." nor "..", followed only by separators and "." segments.
FinalNames(p) ==
    {to_string_lossy(SubSeq(p, i, j)) : <<i, j>> \in
        {ij \in (1..Len(p)) \X (1..Len(p)) :
            /\ ij[1] <= ij[2]
            /\ \A k \in ij[1]..ij[2] : p[k] # "/"
            /\ SubSeq(p, ij[1], ij[2]) \notin {<<".">>, <<".", ".">>}
            /\ ij[1] = 1 \/ p[ij[1] - 1] = "/"
            /\ ij[2] = Len(p) \/ p[ij[2] + 1] = "/"
            /\ \A k \in (ij[2] + 1)..Len(p) :
                  \/ p[k] = "/"
                  \/ p[k] = "." /\ p[k - 1] = "/" /\ (k = Len(p) \/ p[k + 1] = "/")}}

====
